---------------------------- MODULE Spec2Model ----------------------------
(***************************************************************************)
(* icepick.js: persistent updates over hierarchies of objects and arrays   *)
(* that have been frozen with Object.freeze().                             *)
(*                                                                         *)
(* The JavaScript heap is a sequence of container objects; a value is a    *)
(* primitive or a reference to a heap object (identity = the index).  The  *)
(* exported functions are operators that take the heap and return the new  *)
(* heap together with the value returned or the error thrown.  Engine      *)
(* semantics are those of ES2015 and later (Object.keys and Object.freeze  *)
(* accept primitives and throw only on null and undefined).                *)
(***************************************************************************)
EXTENDS Naturals, Sequences, FiniteSets

VARIABLES heap, roots, last, stack

vars == <<heap, roots, last, stack>>

---------------------------------------------------------------------------
(* Bounds *)

\* Most objects the heap may hold.
MaxObj == 7
\* Longest key path handed to getIn / assocIn / updateIn.
MaxPathLen == 2
\* Number of containers in the caller-built graphs handed to freeze.
NObj == 3
\* Frames the call stack holds when a call is run step by step.
MaxStack == 9

---------------------------------------------------------------------------
(* Values *)

Undefined == [t |-> "undefined", v |-> 0]
Null == [t |-> "null", v |-> 0]
Num == [t |-> "number", v |-> 1]
Bool == [t |-> "boolean", v |-> 1]
\* The one-character string "x": its only own key is "0", whose value is "x".
Str == [t |-> "string", v |-> 0]
Ref(id) == [t |-> "object", v |-> id]

Primitives == {Undefined, Null, Num, Bool, Str}

IsRef(val) == val.t = "object"

\* Property names in use.  "0" and "1" are array indices, "a" is not.
Keys == {"0", "1", "a"}
\* IndexKey[i + 1] is the property name of array index i.
IndexKey == <<"0", "1">>
\* Object.keys lists integer-like names in ascending order, then the others.
KeyOrder == <<"0", "1", "a">>
\* What an undefined key (path[0] of an empty path) is converted to.
UndefinedKey == "undefined"

IsIndex(key) == \E n \in 1..Len(IndexKey) : IndexKey[n] = key
IndexOf(key) == CHOOSE n \in 0..(Len(IndexKey) - 1) : IndexKey[n + 1] = key

\* A container: an array (isArray, with its length) or a plain object.
Obj(isArray, frozen, length, props) ==
  [isArray |-> isArray, frozen |-> frozen, length |-> length, props |-> props]

NoProps == [k \in {} |-> Undefined]
EmptyObject == Obj(FALSE, FALSE, 0, NoProps)

\* A stack frame: the function, where it stands, its arguments (key is
\* path[1] for assoc and del), the clone it made (obj) and, for
\* baseFreeze, the prevNodes array and the keys still to visit (path).
Frame(fn, pc, coll, path, value, callback) ==
  [fn |-> fn, pc |-> pc, coll |-> coll, path |-> path, value |-> value,
   callback |-> callback, obj |-> Undefined, prev |-> <<>>]

\* The record of a call: the heap it was made on, the function, its
\* arguments, the value returned and the error thrown ("none" when it
\* returned).
CallRecord(before, op, coll, path, value, callback, ret, thrown) ==
  [heap |-> before, coll |-> coll, path |-> path, value |-> value,
   callback |-> callback, op |-> op, ret |-> ret, thrown |-> thrown]

\* What every function returns: the heap after it, the error thrown
\* ("none" when it returned) and the value returned.
Result(h, thrown, val) == [thrown |-> thrown, h |-> h, val |-> val]

\* The result of baseFreeze also carries prevNodes, the array it pushes to
\* and pops from.
FreezeResult(h, thrown, val, prev) ==
  [prev |-> prev, thrown |-> thrown, h |-> h, val |-> val]

---------------------------------------------------------------------------
(* Engine primitives used by the library *)

\* val[key]
Get(h, val, key) ==
  CASE val.t \in {"undefined", "null"} -> Result(h, "TypeError", Undefined)
    [] val.t = "string" -> Result(h, "none", IF key = "0" THEN Str ELSE Undefined)
    [] val.t = "object" ->
         Result(h, "none",
                IF key \in DOMAIN h[val.v].props THEN h[val.v].props[key]
                ELSE Undefined)
    [] OTHER -> Result(h, "none", Undefined)

\* Object.keys(val), as the sequence it returns; val is not null or undefined.
ObjectKeys(h, val) ==
  CASE val.t = "object" ->
         SelectSeq(KeyOrder, LAMBDA k : k \in DOMAIN h[val.v].props)
    [] val.t = "string" -> <<"0">>
    [] OTHER -> <<>>

\* Object.freeze(val): marks a container frozen, leaves a primitive alone.
ObjectFreeze(h, val) ==
  IF IsRef(val) THEN [h EXCEPT ![val.v].frozen = TRUE] ELSE h

\* Object.isFrozen(val) for a container.
ObjectIsFrozen(h, val) == h[val.v].frozen

\* The container o after o[key] = value; writing an index at or past the
\* end of an array extends its length.
SetProp(o, key, value) ==
  [o EXCEPT
     !.props = [k \in (DOMAIN o.props) \cup {key} |->
                  IF k = key THEN value ELSE o.props[k]],
     !.length = IF o.isArray /\ IsIndex(key) /\ IndexOf(key) >= o.length
                THEN IndexOf(key) + 1 ELSE o.length]

\* The container o after delete o[key]: an array keeps its length.
DeleteProp(o, key) ==
  [o EXCEPT !.props = [k \in (DOMAIN o.props) \ {key} |-> o.props[k]]]

\* obj[key] = value in strict mode: a frozen container throws.
Assign(h, obj, key, value) ==
  IF h[obj.v].frozen THEN Result(h, "TypeError", Undefined)
  ELSE Result([h EXCEPT ![obj.v] = SetProp(h[obj.v], key, value)],
              "none", value)

\* delete obj[key] in strict mode: throws on a property of a frozen
\* container, and does nothing when the container has no such property.
Delete(h, obj, key) ==
  IF h[obj.v].frozen /\ key \in DOMAIN h[obj.v].props
  THEN Result(h, "TypeError", Undefined)
  ELSE Result([h EXCEPT ![obj.v] = DeleteProp(h[obj.v], key)], "none", Bool)

---------------------------------------------------------------------------
(* icepick.js *)

weCareAbout(val) == val.t = "object"

\* Array(length) filled index by index: every index below length becomes a
\* present key, and no other key is copied.
arrayClone(arr) ==
  Obj(TRUE, FALSE, arr.length,
      [k \in {IndexKey[n] : n \in 1..arr.length} |->
         IF k \in DOMAIN arr.props THEN arr.props[k] ELSE Undefined])

\* {} filled from Object.keys(obj); obj is not null or undefined.  A
\* primitive has no own keys, except a string, which has its characters.
objClone(h, obj) ==
  Obj(FALSE, FALSE, 0,
      [k \in {ObjectKeys(h, obj)[n] : n \in 1..Len(ObjectKeys(h, obj))} |->
         Get(h, obj, k).val])

\* A clone that copies nothing: it hands back the container it was given.
cloneAlias(h, coll) ==
  IF IsRef(coll) THEN Result(h, "none", coll)
  ELSE Result(h, "TypeError", Undefined)

\* clone(coll): appends the new container to the heap and returns it.
\* Whatever is not an array goes to objClone, primitives included, where
\* Object.keys throws on null and undefined.
clone(h, coll) ==
  IF IsRef(coll) /\ h[coll.v].isArray
  THEN Result(Append(h, arrayClone(h[coll.v])), "none", Ref(Len(h) + 1))
  ELSE IF coll.t \in {"undefined", "null"}
  THEN Result(h, "TypeError", Undefined)
  ELSE Result(Append(h, objClone(h, coll)), "none", Ref(Len(h) + 1))

RECURSIVE baseFreeze(_, _, _)
RECURSIVE freezeEach(_, _, _, _)

\* The forEach over Object.keys(coll) in baseFreeze: recurses into every
\* property that is a container; a throw ends the loop.
freezeEach(h, coll, keys, prevNodes) ==
  IF keys = <<>> THEN FreezeResult(h, "none", coll, prevNodes)
  ELSE LET prop == Get(h, coll, Head(keys)).val
           r == IF weCareAbout(prop) THEN baseFreeze(h, prop, prevNodes)
                ELSE FreezeResult(h, "none", prop, prevNodes)
       IN IF r.thrown # "none" THEN r
          ELSE freezeEach(r.h, coll, Tail(keys), r.prev)

\* A baseFreeze that never pops prevNodes: it holds every container
\* visited so far, not only the ancestors.
baseFreezeNoPop(h, coll, prevNodes) ==
  IF \E n \in 1..Len(prevNodes) : prevNodes[n] = coll
  THEN FreezeResult(h, "CycleError", Undefined, prevNodes)
  ELSE IF coll.t \in {"undefined", "null"}
  THEN FreezeResult(h, "TypeError", Undefined, Append(prevNodes, coll))
  ELSE LET h1 == ObjectFreeze(h, coll)
       IN freezeEach(h1, coll, ObjectKeys(h1, coll), Append(prevNodes, coll))

baseFreeze(h, coll, prevNodes) ==
  IF \E n \in 1..Len(prevNodes) : prevNodes[n] = coll
  THEN FreezeResult(h, "CycleError", Undefined, prevNodes)
  ELSE IF coll.t \in {"undefined", "null"}
  THEN \* Object.freeze returns them; Object.keys throws on them
       FreezeResult(h, "TypeError", Undefined, Append(prevNodes, coll))
  ELSE LET h1 == ObjectFreeze(h, coll)
           r == freezeEach(h1, coll, ObjectKeys(h1, coll),
                           Append(prevNodes, coll))
       IN IF r.thrown # "none" THEN r
          ELSE FreezeResult(r.h, "none", coll,
                            SubSeq(r.prev, 1, Len(r.prev) - 1))

freeze(h, coll) ==
  LET r == baseFreeze(h, coll, <<>>) IN Result(r.h, r.thrown, r.val)

\* An assoc that freezes and attaches a copy of an unfrozen value instead
\* of the value itself.
assocCopy(h, coll, key, value) ==
  LET c == clone(h, coll)
      newObj == c.val
      fresh == weCareAbout(value) /\ ~ObjectIsFrozen(c.h, value)
      copy == IF fresh THEN clone(c.h, value) ELSE Result(c.h, "none", value)
      f == IF fresh THEN baseFreeze(copy.h, copy.val, <<>>)
           ELSE FreezeResult(c.h, "none", value, <<>>)
      w == Assign(f.h, newObj, key, f.val)
  IN IF c.thrown # "none" THEN c
     ELSE IF f.thrown # "none"
     THEN Result(SubSeq(f.h, 1, Len(h)), f.thrown, Undefined)
     ELSE Result(ObjectFreeze(w.h, newObj), "none", newObj)

assoc(h, coll, key, value) ==
  LET c == clone(h, coll)
      newObj == c.val
      f == IF weCareAbout(value) /\ ~ObjectIsFrozen(c.h, value)
           THEN baseFreeze(c.h, value, <<>>)
           ELSE FreezeResult(c.h, "none", value, <<>>)
      w == Assign(f.h, newObj, key, f.val)
  IN IF c.thrown # "none" THEN c
     ELSE IF f.thrown # "none"
     THEN \* the clone is dropped; what baseFreeze froze stays frozen
          Result(SubSeq(f.h, 1, Len(h)), f.thrown, Undefined)
     ELSE IF w.thrown # "none" THEN Result(SubSeq(w.h, 1, Len(h)), w.thrown, Undefined)
     ELSE Result(ObjectFreeze(w.h, newObj), "none", newObj)

del(h, obj, key) ==
  LET c == clone(h, obj)
      newObj == c.val
      w == Delete(c.h, newObj, key)
  IN IF c.thrown # "none" THEN c
     ELSE IF w.thrown # "none" THEN Result(SubSeq(w.h, 1, Len(h)), w.thrown, Undefined)
     ELSE Result(ObjectFreeze(w.h, newObj), "none", newObj)

\* path[0]: undefined when the path is empty, and then used as a key.
Key0(path) == IF path = <<>> THEN UndefinedKey ELSE Head(path)
\* path.slice(1)
Slice1(path) == IF path = <<>> THEN <<>> ELSE Tail(path)

RECURSIVE assocIn(_, _, _, _)
assocIn(h, coll, path, value) ==
  IF Len(path) = 1 THEN assoc(h, coll, Key0(path), value)
  ELSE LET got == Get(h, coll, Key0(path))
           inner == assocIn(h, got.val, Slice1(path), value)
       IN IF got.thrown # "none" THEN got
          ELSE IF inner.thrown # "none" THEN inner
          ELSE assoc(inner.h, coll, Key0(path), inner.val)

\* path.reduce(function (val, key) { return val[key]; }, coll)
RECURSIVE baseGet(_, _, _)
baseGet(h, coll, path) ==
  IF path = <<>> THEN Result(h, "none", coll)
  ELSE LET got == Get(h, coll, Head(path))
       IN IF got.thrown # "none" THEN got
          ELSE baseGet(h, got.val, Tail(path))

getIn(h, coll, path) == baseGet(h, coll, path)

\* The callbacks handed to updateIn: the identity and a constant function.
Callbacks == {"identity", "constant"}
Call(callback, existingVal) ==
  IF callback = "identity" THEN existingVal ELSE Num

updateIn(h, coll, path, callback) ==
  LET existing == baseGet(h, coll, path)
  IN IF existing.thrown # "none" THEN existing
     ELSE assocIn(h, coll, path, Call(callback, existing.val))

---------------------------------------------------------------------------
(* The caller: the hierarchies it builds and the calls it makes *)

Props1(k1, v1) == [k \in {k1} |-> v1]
Props2(k1, v1, k2, v2) == [k \in {k1, k2} |-> IF k = k1 THEN v1 ELSE v2]
Props3(k1, v1, k2, v2, k3, v3) ==
  [k \in {k1, k2, k3} |-> IF k = k1 THEN v1 ELSE IF k = k2 THEN v2 ELSE v3]

\* The hierarchy that becomes the first root: objects 1, 2 and 3, unfrozen.
\*   {a: [{a: true, 0: undefined}, "x"], 0: 1, 1: null}
\*   [s, 1] with s = {0: t, a: t} and t = [true, null]   (t is shared)
RootHeaps ==
  { << Obj(FALSE, FALSE, 0, Props3("a", Ref(2), "0", Num, "1", Null)),
       Obj(TRUE, FALSE, 2, Props2("0", Ref(3), "1", Str)),
       Obj(FALSE, FALSE, 0, Props2("a", Bool, "0", Undefined)) >>,
    << Obj(TRUE, FALSE, 2, Props2("0", Ref(2), "1", Num)),
       Obj(FALSE, FALSE, 0, Props2("0", Ref(3), "a", Ref(3))),
       Obj(TRUE, FALSE, 2, Props2("0", Bool, "1", Null)) >> }

\* The value the caller attaches: objects 4 and 5.
\*   a fresh {a: [1]}; an Object.freeze'd {a: {}} whose child is not frozen;
\*   an unfrozen {a: c} with c = {0: <the outer object>}   (a cycle)
ValueHeaps ==
  { << Obj(FALSE, FALSE, 0, Props1("a", Ref(5))),
       Obj(TRUE, FALSE, 1, Props1("0", Num)) >>,
    << Obj(FALSE, TRUE, 0, Props1("a", Ref(5))),
       EmptyObject >>,
    << Obj(FALSE, FALSE, 0, Props1("a", Ref(5))),
       Obj(FALSE, FALSE, 0, Props1("0", Ref(4))) >> }

RootId == 1
ValueId == 4

\* The key paths of length lo..hi.
Paths(lo, hi) == UNION {[1..n -> Keys] : n \in lo..hi}

NoCall ==
  CallRecord(<<>>, "none", Undefined, <<>>, Undefined, "none", Undefined,
             "none")

\* The record of a call made now, with its outcome r.
Called(op, coll, path, value, callback, r) ==
  CallRecord(heap, op, coll, path, value, callback, r.val, r.thrown)

\* A container an update returned is a root for the calls that follow.
Returned(r) ==
  IF r.thrown = "none" /\ IsRef(r.val) THEN roots \cup {r.val.v} ELSE roots

\* The values the caller passes as the value to attach: a primitive, the
\* container it built, and the first root once it is frozen.
Values == {Num, Ref(ValueId)} \cup {Ref(r) : r \in roots \cap {RootId}}

Init ==
  /\ \E rh \in RootHeaps, vh \in ValueHeaps : heap = rh \o vh
  /\ roots = {}
  /\ last = NoCall
  /\ stack = <<>>

Freeze(x) ==
  LET r == freeze(heap, x)
  IN /\ heap' = r.h
     /\ roots' = Returned(r)
     /\ last' = Called("freeze", x, <<>>, Undefined, "none", r)
     /\ UNCHANGED stack

Assoc(coll, key, value) ==
  LET r == assoc(heap, coll, key, value)
  IN /\ Len(heap) + 1 <= MaxObj
     /\ heap' = r.h
     /\ roots' = Returned(r)
     /\ last' = Called("assoc", coll, <<key>>, value, "none", r)
     /\ UNCHANGED stack

Del(obj, key) ==
  LET r == del(heap, obj, key)
  IN /\ Len(heap) + 1 <= MaxObj
     /\ heap' = r.h
     /\ roots' = Returned(r)
     /\ last' = Called("del", obj, <<key>>, Undefined, "none", r)
     /\ UNCHANGED stack

AssocIn(coll, path, value) ==
  LET r == assocIn(heap, coll, path, value)
  IN /\ Len(heap) + Len(path) <= MaxObj
     /\ heap' = r.h
     /\ roots' = Returned(r)
     /\ last' = Called("assocIn", coll, path, value, "none", r)
     /\ UNCHANGED stack

UpdateIn(coll, path, callback) ==
  LET r == updateIn(heap, coll, path, callback)
  IN /\ Len(heap) + Len(path) <= MaxObj
     /\ heap' = r.h
     /\ roots' = Returned(r)
     /\ last' = Called("updateIn", coll, path, Undefined, callback, r)
     /\ UNCHANGED stack

GetIn(coll, path) ==
  LET r == getIn(heap, coll, path)
  IN /\ heap' = r.h
     /\ last' = Called("getIn", coll, path, Undefined, "none", r)
     /\ UNCHANGED <<roots, stack>>

\* The update calls on roots.
Next ==
  \/ Freeze(Ref(RootId))
  \/ \E c \in roots, k \in Keys, v \in Values : Assoc(Ref(c), k, v)
  \/ \E c \in roots, k \in Keys : Del(Ref(c), k)
  \/ \E c \in roots, p \in Paths(1, MaxPathLen), v \in Values :
       AssocIn(Ref(c), p, v)
  \/ \E c \in roots, p \in Paths(1, MaxPathLen), f \in Callbacks :
       UpdateIn(Ref(c), p, f)

Spec == Init /\ [][Next]_vars

\* The calls that change no key: freeze of any value and getIn on any
\* container, over the same hierarchies.
NextRead ==
  \/ \E x \in Primitives \cup {Ref(RootId), Ref(ValueId)} : Freeze(x)
  \/ \E c \in 1..Len(heap), p \in Paths(0, MaxPathLen) : GetIn(Ref(c), p)

SpecRead == Init /\ [][NextRead]_vars

\* Every graph of NObj unfrozen objects whose values, under the keys "0"
\* and "a", are absent or any of the objects: trees, shared children and
\* cycles alike.
GraphProps ==
  UNION {[D -> {Ref(i) : i \in 1..NObj}] : D \in SUBSET {"0", "a"}}

InitGraph ==
  /\ heap \in [1..NObj -> {Obj(FALSE, FALSE, 0, ps) : ps \in GraphProps}]
  /\ roots = {}
  /\ last = NoCall
  /\ stack = <<>>

NextFreeze == Freeze(Ref(RootId))

SpecFreeze == InitGraph /\ [][NextFreeze]_vars

---------------------------------------------------------------------------
(* One call, run step by step on an explicit call stack *)

Top == stack[Len(stack)]
Callers == SubSeq(stack, 1, Len(stack) - 1)
At(fn, pc) == stack # <<>> /\ Top.fn = fn /\ Top.pc = pc

\* The top frame becomes f.
Goto(f) == Append(Callers, f)
\* The top frame becomes f and calls g.
Invoke(f, g) == Callers \o <<f, g>>

\* The hierarchies a call is made on: those of Init, as built and after
\* freeze(root).
CallHeaps ==
  LET built == {rh \o vh : rh \in RootHeaps, vh \in ValueHeaps}
  IN built \cup {freeze(h, Ref(RootId)).h : h \in built}

InitSteps ==
  /\ heap \in CallHeaps
  /\ roots = {}
  /\ last = NoCall
  /\ stack = <<>>

\* The caller makes its call: the frame of the exported function is pushed.
Start(op, frame) ==
  /\ stack = <<>>
  /\ last.op = "none"
  /\ stack' = <<frame>>
  /\ last' = CallRecord(heap, op, frame.coll, frame.path, frame.value,
                         frame.callback, Undefined, "none")
  /\ UNCHANGED <<heap, roots>>

CallFreeze(coll) ==
  Start("freeze", Frame("baseFreeze", "enter", coll, <<>>, Undefined, "none"))

CallAssoc(coll, key, value) ==
  Start("assoc", Frame("assoc", "enter", coll, <<key>>, value, "none"))

CallDel(obj, key) ==
  Start("del", Frame("del", "enter", obj, <<key>>, Undefined, "none"))

CallAssocIn(coll, path, value) ==
  Start("assocIn", Frame("assocIn", "enter", coll, path, value, "none"))

CallGetIn(coll, path) ==
  Start("getIn", Frame("baseGet", "enter", coll, path, Undefined, "none"))

CallUpdateIn(coll, path, callback) ==
  Start("updateIn",
        Frame("updateIn", "enter", coll, path, Undefined, callback))

\* An exception: nothing catches it, so the whole stack unwinds; what the
\* call allocated is unreachable and dropped.
Throw(err) ==
  /\ stack' = <<>>
  /\ heap' = SubSeq(heap, 1, Len(last.heap))
  /\ last' = [last EXCEPT !.thrown = err, !.ret = Undefined]

\* The top frame returns val.
Return(val) ==
  /\ stack' = Callers
  /\ last' = [last EXCEPT !.ret = val]

\* baseFreeze without its cycle check.
FreezeEnterUnchecked ==
  /\ At("baseFreeze", "enter")
  /\ IF Top.coll.t \in {"undefined", "null"} THEN Throw("TypeError")
     ELSE /\ heap' = ObjectFreeze(heap, Top.coll)
          /\ stack' = Goto([Top EXCEPT !.pc = "each",
                                       !.path = ObjectKeys(heap, Top.coll),
                                       !.prev = Append(Top.prev, Top.coll)])
          /\ UNCHANGED last
  /\ UNCHANGED roots

\* baseFreeze up to the forEach: the cycle check, Object.freeze, the push.
FreezeEnter ==
  /\ At("baseFreeze", "enter")
  /\ IF \E n \in 1..Len(Top.prev) : Top.prev[n] = Top.coll
     THEN Throw("CycleError")
     ELSE IF Top.coll.t \in {"undefined", "null"} THEN Throw("TypeError")
     ELSE /\ heap' = ObjectFreeze(heap, Top.coll)
          /\ stack' = Goto([Top EXCEPT !.pc = "each",
                                       !.path = ObjectKeys(heap, Top.coll),
                                       !.prev = Append(Top.prev, Top.coll)])
          /\ UNCHANGED last
  /\ UNCHANGED roots

\* One round of the forEach: recurse into the property if it is a
\* container.
FreezeEach ==
  /\ At("baseFreeze", "each")
  /\ Top.path # <<>>
  /\ LET prop == Get(heap, Top.coll, Head(Top.path)).val
         rest == [Top EXCEPT !.path = Tail(Top.path)]
     IN IF weCareAbout(prop)
        THEN /\ Len(stack) < MaxStack
             /\ stack' = Invoke(rest, [Frame("baseFreeze", "enter", prop,
                                             <<>>, Undefined, "none")
                                         EXCEPT !.prev = Top.prev])
        ELSE stack' = Goto(rest)
  /\ UNCHANGED <<heap, roots, last>>

\* After the forEach: the pop and the return.  prevNodes is one array, so
\* the calling baseFreeze sees the pop.
FreezeReturn ==
  /\ At("baseFreeze", "each")
  /\ Top.path = <<>>
  /\ LET popped == SubSeq(Top.prev, 1, Len(Top.prev) - 1)
         n == Len(stack) - 1
     IN stack' = IF n > 0 /\ stack[n].fn = "baseFreeze"
                 THEN [Callers EXCEPT ![n].prev = popped]
                 ELSE Callers
  /\ last' = [last EXCEPT !.ret = Top.coll]
  /\ UNCHANGED <<heap, roots>>

\* assoc up to the assignment: the clone, and baseFreeze of an unfrozen
\* container value.
AssocEnter ==
  /\ At("assoc", "enter")
  /\ LET c == clone(heap, Top.coll)
         next == [Top EXCEPT !.pc = "set", !.obj = c.val]
     IN IF c.thrown # "none" THEN Throw(c.thrown)
        ELSE /\ heap' = c.h
             /\ IF weCareAbout(Top.value) /\ ~ObjectIsFrozen(c.h, Top.value)
                THEN /\ Len(stack) < MaxStack
                     /\ stack' = Invoke(next, Frame("baseFreeze", "enter",
                                                    Top.value, <<>>,
                                                    Undefined, "none"))
                     /\ UNCHANGED last
                ELSE /\ stack' = Goto(next)
                     /\ last' = [last EXCEPT !.ret = Top.value]
  /\ UNCHANGED roots

\* The rest of assoc: the assignment, Object.freeze and the return.
AssocSet ==
  /\ At("assoc", "set")
  /\ LET w == Assign(heap, Top.obj, Top.path[1], last.ret)
     IN IF w.thrown # "none" THEN Throw(w.thrown)
        ELSE /\ heap' = ObjectFreeze(w.h, Top.obj)
             /\ Return(Top.obj)
  /\ UNCHANGED roots

DelStep ==
  /\ At("del", "enter")
  /\ LET r == del(heap, Top.coll, Top.path[1])
     IN IF r.thrown # "none" THEN Throw(r.thrown)
        ELSE /\ heap' = r.h
             /\ Return(r.val)
  /\ UNCHANGED roots

\* assocIn: a path of one key goes to assoc; any other path reads
\* coll[key0] and recurses on it with path.slice(1).
AssocInEnter ==
  /\ At("assocIn", "enter")
  /\ LET key0 == Key0(Top.path)
         got == Get(heap, Top.coll, key0)
     IN IF Len(Top.path) = 1
        THEN /\ Len(stack) < MaxStack
             /\ stack' = Invoke([Top EXCEPT !.pc = "ret"],
                                Frame("assoc", "enter", Top.coll, <<key0>>,
                                      Top.value, "none"))
             /\ UNCHANGED <<heap, last>>
        ELSE IF got.thrown # "none" THEN Throw(got.thrown)
        ELSE /\ Len(stack) < MaxStack
             /\ stack' = Invoke([Top EXCEPT !.pc = "inner"],
                                Frame("assocIn", "enter", got.val,
                                      Slice1(Top.path), Top.value, "none"))
             /\ UNCHANGED <<heap, last>>
  /\ UNCHANGED roots

\* The inner assocIn has returned: assoc its result under key0.
AssocInInner ==
  /\ At("assocIn", "inner")
  /\ Len(stack) < MaxStack
  /\ stack' = Invoke([Top EXCEPT !.pc = "ret"],
                     Frame("assoc", "enter", Top.coll, <<Key0(Top.path)>>,
                           last.ret, "none"))
  /\ UNCHANGED <<heap, roots, last>>

\* assocIn and updateIn return what their last call returned.
TailReturn ==
  /\ stack # <<>>
  /\ Top.pc = "ret"
  /\ stack' = Callers
  /\ UNCHANGED <<heap, roots, last>>

\* One round of the reduce in baseGet.
GetStep ==
  /\ At("baseGet", "enter")
  /\ Top.path # <<>>
  /\ LET got == Get(heap, Top.coll, Head(Top.path))
     IN IF got.thrown # "none" THEN Throw(got.thrown)
        ELSE /\ stack' = Goto([Top EXCEPT !.coll = got.val,
                                          !.path = Tail(Top.path)])
             /\ UNCHANGED <<heap, last>>
  /\ UNCHANGED roots

GetReturn ==
  /\ At("baseGet", "enter")
  /\ Top.path = <<>>
  /\ Return(Top.coll)
  /\ UNCHANGED <<heap, roots>>

UpdateInEnter ==
  /\ At("updateIn", "enter")
  /\ Len(stack) < MaxStack
  /\ stack' = Invoke([Top EXCEPT !.pc = "got"],
                     Frame("baseGet", "enter", Top.coll, Top.path,
                           Undefined, "none"))
  /\ UNCHANGED <<heap, roots, last>>

UpdateInCall ==
  /\ At("updateIn", "got")
  /\ Len(stack) < MaxStack
  /\ stack' = Invoke([Top EXCEPT !.pc = "ret"],
                     Frame("assocIn", "enter", Top.coll, Top.path,
                           Call(Top.callback, last.ret), "none"))
  /\ UNCHANGED <<heap, roots, last>>

\* The next step of the running call.
Step ==
  \/ FreezeEnter \/ FreezeEach \/ FreezeReturn
  \/ AssocEnter \/ AssocSet
  \/ DelStep
  \/ AssocInEnter \/ AssocInInner \/ TailReturn
  \/ GetStep \/ GetReturn
  \/ UpdateInEnter \/ UpdateInCall

\* The values handed to freeze and the values attached.
FreezeArgs == Primitives \cup {Ref(RootId), Ref(ValueId)}
StepValues == {Num, Ref(ValueId), Ref(RootId)}

CallAny ==
  \/ \E x \in FreezeArgs : CallFreeze(x)
  \/ \E k \in Keys, v \in StepValues : CallAssoc(Ref(RootId), k, v)
  \/ \E k \in Keys : CallDel(Ref(RootId), k)
  \/ \E p \in Paths(0, MaxPathLen), v \in StepValues :
       CallAssocIn(Ref(RootId), p, v)
  \/ \E p \in Paths(0, MaxPathLen) : CallGetIn(Ref(RootId), p)
  \/ \E p \in Paths(0, MaxPathLen), f \in Callbacks :
       CallUpdateIn(Ref(RootId), p, f)

NextSteps == CallAny \/ Step

\* The engine runs a call to completion: a step that can be taken is taken.
SpecSteps == InitSteps /\ [][NextSteps]_vars /\ WF_vars(Step)

---------------------------------------------------------------------------
(* Vocabulary of the properties *)

\* The containers that are values of container id.
Children(h, id) ==
  {h[id].props[k].v : k \in {j \in DOMAIN h[id].props : IsRef(h[id].props[j])}}

RECURSIVE Closure(_, _)
Closure(h, ids) ==
  LET more == ids \cup UNION {Children(h, i) : i \in ids}
  IN IF more = ids THEN ids ELSE Closure(h, more)

\* The containers reachable from val, val included.
Reachable(h, val) == IF IsRef(val) THEN Closure(h, {val.v}) ELSE {}

\* Container id is reachable from itself.
OnCycle(h, id) == id \in Closure(h, Children(h, id))

HasCycle(h, val) == \E i \in Reachable(h, val) : OnCycle(h, i)

DeepFrozen(h, val) == \A i \in Reachable(h, val) : h[i].frozen

\* A deep-frozen container.
FrozenRoot(h, val) == IsRef(val) /\ DeepFrozen(h, val)

\* The value the path leads to from val; undefined where it cannot be
\* followed.
RECURSIVE ValueAt(_, _, _)
ValueAt(h, val, path) ==
  IF path = <<>> THEN val
  ELSE IF ~IsRef(val) \/ Head(path) \notin DOMAIN h[val.v].props
  THEN Undefined
  ELSE ValueAt(h, h[val.v].props[Head(path)], Tail(path))

Prefix(path, n) == SubSeq(path, 1, n)

\* Every proper prefix of the path leads to a container.
PrefixesAreContainers(h, val, path) ==
  \A n \in 0..(Len(path) - 1) : IsRef(ValueAt(h, val, Prefix(path, n)))

\* Some proper, non-empty prefix of the path leads to a number, a boolean
\* or a string.
PrimitiveOnPath(h, val, path) ==
  \E n \in 1..(Len(path) - 1) :
    /\ PrefixesAreContainers(h, val, Prefix(path, n))
    /\ ValueAt(h, val, Prefix(path, n)).t \in {"number", "boolean", "string"}

UpdateOps == {"assoc", "del", "assocIn", "updateIn"}

\* The last call returned (raised nothing).
LastReturned == last.op # "none" /\ last.thrown = "none"

\* The value the last update attached.
Attached ==
  IF last.op = "updateIn"
  THEN Call(last.callback, getIn(last.heap, last.coll, last.path).val)
  ELSE last.value

---------------------------------------------------------------------------
(* Properties *)

\* C1: an assoc / assocIn of a deep-frozen container along a path whose
\* proper prefixes are containers shares every off-path value: at each
\* depth d, every key of the input's container at that depth other than
\* path[d] is a key of the result's container at that depth, with the
\* identical value.
C1_StructuralSharing ==
  ( /\ last.op \in {"assoc", "assocIn"}
    /\ LastReturned
    /\ FrozenRoot(last.heap, last.coll)
    /\ last.path # <<>>
    /\ PrefixesAreContainers(last.heap, last.coll, last.path) )
  => \A d \in 0..(Len(last.path) - 1) :
       LET cd == ValueAt(last.heap, last.coll, Prefix(last.path, d))
           rd == ValueAt(heap, last.ret, Prefix(last.path, d))
       IN /\ IsRef(rd)
          /\ \A k \in (DOMAIN last.heap[cd.v].props) \ {last.path[d + 1]} :
               /\ k \in DOMAIN heap[rd.v].props
               /\ heap[rd.v].props[k] = last.heap[cd.v].props[k]

\* C1 holds of plain objects and of arrays that carry index keys only.
IndexKeysOnly(h, val) ==
  \A i \in Reachable(h, val) :
    h[i].isArray => \A k \in DOMAIN h[i].props : IsIndex(k)

C1_SharingWithoutNamedArrayKeys ==
  IndexKeysOnly(last.heap, last.coll) => C1_StructuralSharing

\* C2: an update call changes no container that was frozen when it was
\* called, so every earlier root keeps its keys, its length and the
\* identity of every value; and the container it returns is a new one.
C2_NonMutation ==
  last.op \in UpdateOps =>
    /\ \A id \in DOMAIN last.heap :
         last.heap[id].frozen => heap[id] = last.heap[id]
    /\ \A r \in roots : r \in DOMAIN last.heap => heap[r] = last.heap[r]
    /\ LastReturned =>
         /\ IsRef(last.ret)
         /\ last.ret # last.coll
         /\ last.ret.v \notin DOMAIN last.heap

\* An update of a root that an earlier update returned, while the first
\* root is still held.
C2_Witness ==
  /\ last.op \in UpdateOps
  /\ LastReturned
  /\ last.coll.v \in roots \ {RootId}
  /\ RootId \in roots
  /\ Cardinality(roots) = 3

\* C3: every container reachable from what freeze or an update of a
\* deep-frozen container returns is frozen, whatever acyclic value was
\* attached.
C3_DeepImmutability ==
  ( /\ LastReturned
    /\ IsRef(last.ret)
    /\ last.op \in UpdateOps => FrozenRoot(last.heap, last.coll)
    /\ ~HasCycle(last.heap, Attached) )
  => DeepFrozen(heap, last.ret)

\* C4: getIn(assocIn(c, path, v), path) is v itself, for a deep-frozen c
\* and a path whose proper prefixes are containers of c; a container v is
\* frozen where it is, with the contents it had.
C4_RoundTrip ==
  ( /\ last.op = "assocIn"
    /\ LastReturned
    /\ FrozenRoot(last.heap, last.coll)
    /\ last.path # <<>>
    /\ PrefixesAreContainers(last.heap, last.coll, last.path) )
  => LET got == getIn(heap, last.ret, last.path)
     IN /\ got.thrown = "none"
        /\ got.val = last.value
        /\ IsRef(last.value) =>
             /\ heap[last.value.v].frozen
             /\ heap[last.value.v].props = last.heap[last.value.v].props

\* An assocIn two levels down that attached a container that was not
\* frozen before the call.
C4_Witness ==
  /\ last.op = "assocIn"
  /\ LastReturned
  /\ Len(last.path) = 2
  /\ FrozenRoot(last.heap, last.coll)
  /\ PrefixesAreContainers(last.heap, last.coll, last.path)
  /\ last.value = Ref(ValueId)
  /\ ~last.heap[ValueId].frozen

\* C7: assocIn / updateIn raise when a proper prefix of the path leads to
\* a number, a boolean or a string.
C7_PrimitiveDescentRaises ==
  ( /\ last.op \in {"assocIn", "updateIn"}
    /\ Len(last.path) >= 2
    /\ IsRef(last.coll)
    /\ PrimitiveOnPath(last.heap, last.coll, last.path) )
  => last.thrown # "none"

\* C9: del of a frozen container that assoc / del calls produced (an
\* array may have a hole; here its keys are indices only) returns a new
\* frozen container of the same kind and length whose keys are the input's
\* keys without the key, each with the identical value: no hole of the
\* input is a key of the result.
C9_DelRemovesOneKey ==
  ( /\ last.op = "del"
    /\ LastReturned
    /\ IsRef(last.coll)
    /\ IndexKeysOnly(last.heap, last.coll) )
  => LET c == last.heap[last.coll.v]
         k == last.path[1]
     IN /\ IsRef(last.ret)
        /\ last.ret.v \notin DOMAIN last.heap
        /\ heap[last.ret.v].frozen
        /\ heap[last.ret.v].isArray = c.isArray
        /\ heap[last.ret.v].length = c.length
        /\ DOMAIN heap[last.ret.v].props = (DOMAIN c.props) \ {k}
        /\ \A j \in (DOMAIN c.props) \ {k} :
             j \in DOMAIN heap[last.ret.v].props
               => heap[last.ret.v].props[j] = c.props[j]

\* C5: freeze of a container raises the cycle error exactly when some
\* container reachable from it is reachable from itself; otherwise it
\* raises nothing and returns the container, shared children included.
C5_CycleDetectionExact ==
  (last.op = "freeze" /\ IsRef(last.coll)) =>
    /\ last.thrown = "CycleError" <=> HasCycle(last.heap, last.coll)
    /\ ~HasCycle(last.heap, last.coll) =>
         /\ last.thrown = "none"
         /\ last.ret = last.coll
         /\ DeepFrozen(heap, last.coll)

\* The parents of container id, each with the key it is held under.
Holders(h, id) ==
  {<<p, k>> \in (1..Len(h)) \X Keys :
     k \in DOMAIN h[p].props /\ h[p].props[k] = Ref(id)}

\* freeze returned on a hierarchy in which a container is held by two
\* different parents, both reached from the root.
C5_Witness ==
  /\ last.op = "freeze"
  /\ LastReturned
  /\ \E i \in Reachable(heap, last.coll) :
       \E x, y \in Holders(heap, i) :
         /\ x[1] # y[1]
         /\ {x[1], y[1]} \subseteq Reachable(heap, last.coll)

\* C6: getIn on a container raises nothing, whatever the path, and
\* returns undefined when a step lands on a missing key or on a value that
\* is not a container.
C6_GetInNeverRaises ==
  (last.op = "getIn" /\ IsRef(last.coll)) =>
    /\ last.thrown = "none"
    /\ ~PrefixesAreContainers(last.heap, last.coll, last.path)
         => last.ret = Undefined

\* C8: freeze returns a value that is not a container as it is and raises
\* nothing.
C8_FreezeNonContainer ==
  (last.op = "freeze" /\ ~IsRef(last.coll)) =>
    /\ last.thrown = "none"
    /\ last.ret = last.coll

\* The result the exported function computes in one go, for the call
\* recorded in last.
Whole ==
  CASE last.op = "freeze" -> freeze(last.heap, last.coll)
    [] last.op = "assoc" ->
         assoc(last.heap, last.coll, last.path[1], last.value)
    [] last.op = "del" -> del(last.heap, last.coll, last.path[1])
    [] last.op = "assocIn" ->
         assocIn(last.heap, last.coll, last.path, last.value)
    [] last.op = "getIn" -> getIn(last.heap, last.coll, last.path)
    [] last.op = "updateIn" ->
         updateIn(last.heap, last.coll, last.path, last.callback)

\* A call run step by step ends as the function computed in one go does.
StepsAgree ==
  (stack = <<>> /\ last.op # "none") =>
    /\ heap = Whole.h
    /\ last.thrown = Whole.thrown
    /\ last.ret = Whole.val

\* The code never needs more frames than the model gives the stack.
StackFits == Len(stack) < MaxStack

\* C10: every call finishes, returning or raising: once a call is running
\* (the stack is not empty) the stack empties.
C10_Termination == (stack # <<>>) ~> (stack = <<>>)

\* freeze has finished on a hierarchy with a reference cycle, by raising.
C10_Witness ==
  /\ last.op = "freeze"
  /\ stack = <<>>
  /\ HasCycle(last.heap, last.coll)
  /\ last.thrown = "CycleError"

\* assocIn has finished on an empty path.
C10_EmptyPathFinished ==
  /\ last.op = "assocIn"
  /\ last.path = <<>>
  /\ stack = <<>>

=============================================================================
